---- MODULE Spec2Model ----
(***************************************************************************)
(* Model of the Discord-Purge backend core:                                *)
(*   - core/op_manager.rs : OperationState (is_running / is_paused /       *)
(*     should_abort atomics, pause_notifier) and the workflow commands of  *)
(*     api/discord.rs that use it;                                         *)
(*   - api/rate_limiter.rs : RateLimiterActor (inbox, bucket table,        *)
(*     global throttle, retry policy) and ApiHandle::send_request.         *)
(* OpSpec is the operation state machine with its workflows, FairOpSpec    *)
(* the same run by the async runtime; LimSpec is the dispatcher serving    *)
(* the requests of any callers, FairLimSpec the same with the dispatcher   *)
(* task kept running; AttemptSpec is one request served from any           *)
(* state of its bucket; FeedbackSpec is update_limits applied to every     *)
(* bucket and response of the bounded sets; RouteSpec is get_route applied *)
(* to pairs of requests.                                                   *)
(***************************************************************************)
EXTENDS Integers, Sequences, FiniteSets, TLC

\* OperationState, the workflow commands in progress, abort_operation in
\* progress, and the last control command executed since the last
\* termination began (history)
VARIABLES is_running, is_paused, should_abort, wf, abort_pc, lastCtl

\* the workflows that were running and not suspended when an
\* abort_operation stored should_abort, until they are suspended or started
\* again (history)
VARIABLE aborted

\* the dispatcher's inbox and loop state, the bucket table and the global
\* throttle, the result just written and the writes per response channel,
\* and what send_request has returned to the caller of each request
VARIABLES inbox, submitted, cur, lpc, retry_count, wake,
          buckets, global_reset_at, result, written, returned

\* history of the dispatcher: counters of the request in progress, the 429
\* just processed, the latest deadline set by a global 429, send windows
\* per route, and per route the end of the window the latest response
\* reported as used up
VARIABLES att, last, globalDeadline, win, headerDeadline

\* update_limits applied on its own: its arguments and what it returns
VARIABLE fb

\* get_route applied on its own: two requests and the route keys returned
VARIABLE gr

opVars == <<is_running, is_paused, should_abort, wf, abort_pc, lastCtl, aborted>>

limVars == <<inbox, submitted, cur, lpc, retry_count, wake,
             buckets, global_reset_at, result, written, returned,
             att, last, globalDeadline, win, headerDeadline>>

vars == <<opVars, limVars, fb, gr>>

(***************************************************************************)
(* Bounds of the operation model.                                          *)
(***************************************************************************)
\* largest user_ids / guild_ids / channel_ids vector passed to a bulk command
MaxItems == 2
\* largest page of messages returned by one GET .../messages
MaxMsgs == 1
\* largest number of reactions carried by one message
MaxReactions == 1

\* for i in 0..10 of bury_audit_log
BuryRounds == 10
\* if consecutive_failures > 3 { break; } of bulk_delete_messages
MaxChunkFailures == 3

\* the command invocations that may be in progress at the same time
Workflows == {"w1", "w2"}

\* the workflow commands modelled; "rel" is bulk_remove_relationships, which
\* has the same body as bulk_leave_guilds
Kinds == {"rel", "bury", "delete"}

\* outcomes of ApiHandle::send_request as seen by a workflow, with the
\* outcome of parsing the body where the workflow parses it
SendResults == {"Err", "OkFail", "OkBadBody", "OkGood"}

IdleRec == [kind |-> "none", pc |-> "idle", i |-> 0, n |-> 0, cf |-> 0,
            m |-> 0, r |-> 0, ret |-> "none"]

Active(w) == wf[w].pc \notin {"idle", "done"}

Parked(w) == wf[w].pc = "parked"

(***************************************************************************)
(* OperationManager::new                                                   *)
(***************************************************************************)
OpInit ==
    /\ is_running = FALSE
    /\ is_paused = FALSE
    /\ should_abort = FALSE
    /\ wf = [w \in Workflows |-> IdleRec]
    /\ abort_pc = "idle"
    /\ lastCtl = "none"
    /\ aborted = {}

(***************************************************************************)
(* Control commands.                                                       *)
(***************************************************************************)
pause_operation ==
    /\ is_paused' = TRUE
    /\ lastCtl' = "pause"
    /\ UNCHANGED <<is_running, should_abort, wf, abort_pc, aborted>>

\* resume_operation stores is_paused = false; it does not touch
\* pause_notifier
resume_operation ==
    /\ is_paused' = FALSE
    /\ lastCtl' = "resume"
    /\ UNCHANGED <<is_running, should_abort, wf, abort_pc, aborted>>

\* the positions of a workflow outside its loops, or suspended
RestPcs == {"idle", "done", "parked", "reset_running", "reset_paused", "reset_abort"}

\* the workflows running, not suspended, as abort_operation stores
\* should_abort
AbortSeen == {w \in Workflows : wf[w].pc \notin RestPcs}

\* abort_operation is two atomic stores: should_abort, then is_paused
abort_operation_store_abort ==
    /\ abort_pc = "idle"
    /\ should_abort' = TRUE
    /\ abort_pc' = "stored_abort"
    /\ lastCtl' = "abort"
    /\ aborted' = aborted \cup AbortSeen
    /\ UNCHANGED <<is_running, is_paused, wf>>

\* an abort_operation that leaves is_paused alone
abort_operation_skip_paused ==
    /\ abort_pc = "stored_abort"
    /\ abort_pc' = "idle"
    /\ lastCtl' = "abort"
    /\ UNCHANGED <<is_running, is_paused, should_abort, wf, aborted>>

abort_operation_store_paused ==
    /\ abort_pc = "stored_abort"
    /\ is_paused' = FALSE
    /\ abort_pc' = "idle"
    /\ lastCtl' = "abort"
    /\ UNCHANGED <<is_running, should_abort, wf, aborted>>

(***************************************************************************)
(* Helpers on one workflow's record.                                       *)
(***************************************************************************)
\* w leaves the history of aborts when it is suspended or started again
Goto(w, rec) ==
    /\ wf' = [wf EXCEPT ![w] = rec]
    /\ aborted' = IF rec.pc = "parked" \/ wf[w].pc \in {"idle", "done"}
                  THEN aborted \ {w} ELSE aborted

\* w is running under an abort it has not acted upon yet
Aborted(w) == w \in aborted /\ wf[w].pc \notin RestPcs

\* leaving the command through op_manager.state.reset() with result ret
ToReset(rec, ret) == [IdleRec EXCEPT !.kind = rec.kind, !.pc = "reset_running", !.ret = ret]

\* returning from the command without reset()
ToReturn(rec, ret) == [IdleRec EXCEPT !.kind = rec.kind, !.pc = "done", !.ret = ret]

\* end of one iteration of the for loop over the items
NextItem(rec) ==
    IF rec.i + 1 >= rec.n
    THEN ToReset(rec, "Ok")
    ELSE [rec EXCEPT !.i = rec.i + 1, !.pc = "wait", !.cf = 0, !.m = 0, !.r = 0]

\* end of one iteration of for msg in messages (bulk_delete_messages)
NextMsg(rec) ==
    IF rec.m <= 1
    THEN [rec EXCEPT !.m = 0, !.r = 0, !.pc = "wait"]
    ELSE [rec EXCEPT !.m = rec.m - 1, !.r = 0, !.pc = "msg_wait"]

\* the history of control calls is closed when a termination begins
Step(w, rec) ==
    /\ Goto(w, rec)
    /\ lastCtl' = IF rec.pc \in {"reset_running", "done"} THEN "none" ELSE lastCtl

(***************************************************************************)
(* OperationState::wait_if_paused: while is_paused { notified().await }.   *)
(* No code path calls pause_notifier.notify_one / notify_waiters, so the   *)
(* Notified future of a parked workflow never completes: "parked" has no   *)
(* outgoing step.                                                          *)
(***************************************************************************)
WaitPcs == {"wait", "msg_wait", "react_wait"}

CheckPcOf(pc) ==
    CASE pc = "wait" -> "check"
      [] pc = "msg_wait" -> "msg_check"
      [] pc = "react_wait" -> "react_check"

\* a wait_if_paused that suspends whatever is_paused is
wait_always_suspends(w) ==
    /\ wf[w].pc \in WaitPcs
    /\ Step(w, [IdleRec EXCEPT !.kind = wf[w].kind, !.pc = "parked"])
    /\ UNCHANGED <<is_running, is_paused, should_abort, abort_pc>>

wait_if_paused(w) ==
    /\ wf[w].pc \in WaitPcs
    /\ Step(w, IF is_paused
               THEN [IdleRec EXCEPT !.kind = wf[w].kind, !.pc = "parked"]
               ELSE [wf[w] EXCEPT !.pc = CheckPcOf(wf[w].pc)])
    /\ UNCHANGED <<is_running, is_paused, should_abort, abort_pc>>

(***************************************************************************)
(* OperationState::reset: three atomic stores, then the command returns.   *)
(***************************************************************************)
reset_store_running(w) ==
    /\ wf[w].pc = "reset_running"
    /\ is_running' = FALSE
    /\ Goto(w, [wf[w] EXCEPT !.pc = "reset_paused"])
    /\ UNCHANGED <<is_paused, should_abort, abort_pc, lastCtl>>

reset_store_paused(w) ==
    /\ wf[w].pc = "reset_paused"
    /\ is_paused' = FALSE
    /\ Goto(w, [wf[w] EXCEPT !.pc = "reset_abort"])
    /\ UNCHANGED <<is_running, should_abort, abort_pc, lastCtl>>

\* a reset that leaves should_abort alone
reset_skip_abort(w) ==
    /\ wf[w].pc = "reset_abort"
    /\ Goto(w, [wf[w] EXCEPT !.pc = "done"])
    /\ UNCHANGED <<is_running, is_paused, should_abort, abort_pc, lastCtl>>

reset_store_abort(w) ==
    /\ wf[w].pc = "reset_abort"
    /\ should_abort' = FALSE
    /\ Goto(w, [wf[w] EXCEPT !.pc = "done"])
    /\ UNCHANGED <<is_running, is_paused, abort_pc, lastCtl>>

reset(w) == reset_store_running(w) \/ reset_store_paused(w) \/ reset_store_abort(w)

(***************************************************************************)
(* bulk_remove_relationships (and bulk_leave_guilds, the same body).       *)
(***************************************************************************)
bulk_remove_relationships_start(w) ==
    /\ ~Active(w)
    /\ is_running' = TRUE
    /\ \E n \in 0..MaxItems :
          Step(w, IF n = 0
                  THEN ToReset([IdleRec EXCEPT !.kind = "rel"], "Ok")
                  ELSE [IdleRec EXCEPT !.kind = "rel", !.pc = "wait", !.n = n])
    /\ UNCHANGED <<is_paused, should_abort, abort_pc>>

\* if should_abort { break; } else the DELETE is submitted
bulk_remove_relationships_check(w) ==
    /\ wf[w].kind = "rel"
    /\ wf[w].pc = "check"
    /\ Step(w, IF should_abort THEN ToReset(wf[w], "Ok")
               ELSE [wf[w] EXCEPT !.pc = "send"])
    /\ UNCHANGED <<is_running, is_paused, should_abort, abort_pc>>

\* let _ = send_request(DELETE ...).await : the result is ignored
bulk_remove_relationships_sent(w) ==
    /\ wf[w].kind = "rel"
    /\ wf[w].pc = "send"
    /\ \E res \in SendResults : Step(w, NextItem(wf[w]))
    /\ UNCHANGED <<is_running, is_paused, should_abort, abort_pc>>

(***************************************************************************)
(* bury_audit_log.                                                         *)
(***************************************************************************)
\* is_running is stored before the is_bearer test, which returns Err
\* without reset(); otherwise the GET of the channel is submitted
bury_audit_log_start(w) ==
    /\ ~Active(w)
    /\ is_running' = TRUE
    /\ \E is_bearer \in BOOLEAN :
          Step(w, IF is_bearer
                  THEN ToReturn([IdleRec EXCEPT !.kind = "bury"], "Err")
                  ELSE [IdleRec EXCEPT !.kind = "bury", !.pc = "bury_get", !.n = BuryRounds])
    /\ UNCHANGED <<is_paused, should_abort, abort_pc>>

\* send_request(GET).await? ; status test with reset(); .json().await?
bury_audit_log_get(w) ==
    /\ wf[w].kind = "bury"
    /\ wf[w].pc = "bury_get"
    /\ \E res \in SendResults :
          Step(w, CASE res = "Err" -> ToReturn(wf[w], "Err")
                    [] res = "OkFail" -> ToReset(wf[w], "Err")
                    [] res = "OkBadBody" -> ToReturn(wf[w], "Err")
                    [] res = "OkGood" -> [wf[w] EXCEPT !.pc = "wait"])
    /\ UNCHANGED <<is_running, is_paused, should_abort, abort_pc>>

bury_audit_log_check(w) ==
    /\ wf[w].kind = "bury"
    /\ wf[w].pc = "check"
    /\ Step(w, IF should_abort THEN ToReset(wf[w], "Ok")
               ELSE [wf[w] EXCEPT !.pc = "bury_patch1"])
    /\ UNCHANGED <<is_running, is_paused, should_abort, abort_pc>>

\* first PATCH done (result ignored); sleep 500 ms
bury_audit_log_patch1(w) ==
    /\ wf[w].kind = "bury"
    /\ wf[w].pc = "bury_patch1"
    /\ \E res \in SendResults : Step(w, [wf[w] EXCEPT !.pc = "bury_sleep1"])
    /\ UNCHANGED <<is_running, is_paused, should_abort, abort_pc>>

\* the sleep is over: the second PATCH is submitted, with no checkpoint
bury_audit_log_sleep1(w) ==
    /\ wf[w].kind = "bury"
    /\ wf[w].pc = "bury_sleep1"
    /\ Step(w, [wf[w] EXCEPT !.pc = "bury_patch2"])
    /\ UNCHANGED <<is_running, is_paused, should_abort, abort_pc>>

\* second PATCH done (result ignored); sleep 500 ms; next round
bury_audit_log_patch2(w) ==
    /\ wf[w].kind = "bury"
    /\ wf[w].pc = "bury_patch2"
    /\ \E res \in SendResults : Step(w, NextItem(wf[w]))
    /\ UNCHANGED <<is_running, is_paused, should_abort, abort_pc>>

(***************************************************************************)
(* bulk_delete_messages.  simulation = true and the filters that continue  *)
(* (end_time, only_attachments) skip a message without a dispatcher call;  *)
(* the start_time filter leaves 'message_loop.                             *)
(***************************************************************************)
bulk_delete_messages_start(w) ==
    /\ ~Active(w)
    /\ is_running' = TRUE
    /\ \E n \in 0..MaxItems :
          Step(w, IF n = 0
                  THEN ToReset([IdleRec EXCEPT !.kind = "delete"], "Ok")
                  ELSE [IdleRec EXCEPT !.kind = "delete", !.pc = "wait", !.n = n])
    /\ UNCHANGED <<is_paused, should_abort, abort_pc>>

\* head of 'message_loop: if should_abort { break; } leaves the loop of
\* this channel only; otherwise the GET of the next chunk is submitted
bulk_delete_messages_check(w) ==
    /\ wf[w].kind = "delete"
    /\ wf[w].pc = "check"
    /\ Step(w, IF should_abort THEN NextItem(wf[w])
               ELSE [wf[w] EXCEPT !.pc = "del_get"])
    /\ UNCHANGED <<is_running, is_paused, should_abort, abort_pc>>

\* send_request(GET).await? ; consecutive_failures ; .json().await? ;
\* if messages.is_empty() { break; }
bulk_delete_messages_get(w) ==
    /\ wf[w].kind = "delete"
    /\ wf[w].pc = "del_get"
    /\ \E res \in SendResults, k \in 0..MaxMsgs :
          Step(w, CASE res = "Err" -> ToReturn(wf[w], "Err")
                    [] res = "OkFail" ->
                         IF wf[w].cf + 1 > MaxChunkFailures
                         THEN NextItem(wf[w])
                         ELSE [wf[w] EXCEPT !.cf = wf[w].cf + 1, !.pc = "wait"]
                    [] res = "OkBadBody" -> ToReturn(wf[w], "Err")
                    [] res = "OkGood" ->
                         IF k = 0
                         THEN NextItem(wf[w])
                         ELSE [wf[w] EXCEPT !.cf = 0, !.m = k, !.pc = "msg_wait"])
    /\ UNCHANGED <<is_running, is_paused, should_abort, abort_pc>>

\* per message: if should_abort { break 'message_loop; } ; the filters ;
\* then the reactions loop, the DELETE of the message, or nothing
bulk_delete_messages_msg(w) ==
    /\ wf[w].kind = "delete"
    /\ wf[w].pc = "msg_check"
    /\ \E what \in {"skip", "stop", "delete"}, nr \in 0..MaxReactions :
          Step(w, IF should_abort THEN NextItem(wf[w])
                  ELSE CASE what = "skip" -> NextMsg(wf[w])
                         [] what = "stop" -> NextItem(wf[w])
                         [] what = "delete" ->
                              IF nr > 0
                              THEN [wf[w] EXCEPT !.r = nr, !.pc = "react_wait"]
                              ELSE [wf[w] EXCEPT !.pc = "del_msg"])
    /\ UNCHANGED <<is_running, is_paused, should_abort, abort_pc>>

\* after the reactions loop: if matches_query the DELETE of the message is
\* submitted, with no checkpoint of its own
AfterReactions(rec, matches_query) ==
    IF matches_query THEN [rec EXCEPT !.r = 0, !.pc = "del_msg"] ELSE NextMsg(rec)

AfterReaction(rec, matches_query) ==
    IF rec.r <= 1 THEN AfterReactions(rec, matches_query)
    ELSE [rec EXCEPT !.r = rec.r - 1, !.pc = "react_wait"]

\* per reaction: if should_abort { break 'message_loop; } ; if r["me"] the
\* DELETE of the reaction is submitted
bulk_delete_messages_reaction(w) ==
    /\ wf[w].kind = "delete"
    /\ wf[w].pc = "react_check"
    /\ \E me \in BOOLEAN, matches_query \in BOOLEAN :
          Step(w, IF should_abort THEN NextItem(wf[w])
                  ELSE IF me THEN [wf[w] EXCEPT !.pc = "del_react"]
                  ELSE AfterReaction(wf[w], matches_query))
    /\ UNCHANGED <<is_running, is_paused, should_abort, abort_pc>>

\* DELETE of a reaction done (result ignored)
bulk_delete_messages_reacted(w) ==
    /\ wf[w].kind = "delete"
    /\ wf[w].pc = "del_react"
    /\ \E res \in SendResults, matches_query \in BOOLEAN :
          Step(w, AfterReaction(wf[w], matches_query))
    /\ UNCHANGED <<is_running, is_paused, should_abort, abort_pc>>

\* DELETE of the message done (only counted)
bulk_delete_messages_deleted(w) ==
    /\ wf[w].kind = "delete"
    /\ wf[w].pc = "del_msg"
    /\ \E res \in SendResults : Step(w, NextMsg(wf[w]))
    /\ UNCHANGED <<is_running, is_paused, should_abort, abort_pc>>

(***************************************************************************)
(* The dispatcher: api/rate_limiter.rs.                                    *)
(*                                                                         *)
(* Time.  The code reads the clock (Instant::now()) and only ever compares *)
(* a stored Instant with the current one or takes the saturating           *)
(* difference of the two.  The model therefore keeps every stored Instant  *)
(* relative to the current instant, in ticks of 100 ms: the value d > 0    *)
(* stands for now + d and 0 for any Instant that is not after now.  An     *)
(* action during which e ticks pass lowers every stored Instant by e       *)
(* (Elapse).  "reset_at >= T + t right after a step at time T" reads       *)
(* reset_at >= t in the state that step produces.                          *)
(*                                                                         *)
(* Bounds of the dispatcher model.                                         *)
(***************************************************************************)
\* requests submitted in one run
MaxRequests == 2
\* 429 responses the server gives to one request
Max429 == 2
\* ticks an HTTP call, an oversleep or an idle wait may take
MaxLag == 1
\* largest X-RateLimit-Remaining and X-RateLimit-Limit the server reports
MaxLimit == 1

\* const MAX_RETRIES: u32 = 3
MAX_RETRIES == 3
\* Duration::from_millis(100) added to a bucket wait
BucketBuffer == 1
\* consecutive_429s.min(6)
BackoffCap == 6

\* seconds in ticks of 100 ms
Sec(n) == 10 * n

\* gen_range(100..300) milliseconds, in ticks
Jitters == {1, 2}

\* X-RateLimit-Reset-After and Retry-After values as parse::<f32>() yields
\* them, in ticks; a negative one is no Duration
ResetAfterVals == {-1, 0, 20}

RetryAfterVals == {-1, 0, 2}

\* Duration::from_secs_f32(x) panics
from_secs_f32_panics(x) == x < 0

\* Retry-After absent or unparsable: unwrap_or(1.0)
DefaultRetryAfter == Sec(1)

RECURSIVE Pow2(_)
Pow2(n) == IF n = 0 THEN 1 ELSE 2 * Pow2(n - 1)

Min(a, b) == IF a < b THEN a ELSE b

Max(a, b) == IF a < b THEN b ELSE a

None == [some |-> FALSE, v |-> 0]

Some(x) == [some |-> TRUE, v |-> x]

Opt(S) == {None} \cup {Some(x) : x \in S}

\* a response as update_limits and run read it: status and the rate-limit
\* headers (absent or unparsable headers are None)
AllResponses ==
    [status : {200, 404, 500}, rem : Opt(0..MaxLimit), reset : Opt(ResetAfterVals),
     lim : Opt(0..MaxLimit), retry_after : {None}, global : {FALSE}]
    \cup
    [status : {429}, rem : Opt(0..MaxLimit), reset : Opt(ResetAfterVals),
     lim : Opt(0..MaxLimit), retry_after : Opt(RetryAfterVals), global : BOOLEAN]

\* the header sets the server of the dispatcher runs sends: none; a full
\* quota with a window of 2 s; X-RateLimit-Remaining alone; a
\* X-RateLimit-Reset-After that is no Duration
HeaderSets ==
    { [rem |-> None, reset |-> None, lim |-> None],
      [rem |-> Some(MaxLimit), reset |-> Some(Sec(2)), lim |-> Some(MaxLimit)],
      [rem |-> Some(MaxLimit), reset |-> None, lim |-> None],
      [rem |-> None, reset |-> Some(-1), lim |-> None] }

\* the responses of the dispatcher runs
Responses ==
    {x \in AllResponses :
        /\ [rem |-> x.rem, reset |-> x.reset, lim |-> x.lim] \in HeaderSets
        /\ x.retry_after \in {None, Some(2)}}

NoResponse == [status |-> 0, rem |-> None, reset |-> None, lim |-> None,
               retry_after |-> None, global |-> FALSE]

\* the URLs the callers address, as url::Url::parse sees them
Url(path, query) == [valid |-> TRUE, path |-> path, query |-> query]

DispatchRequests ==
    { [url |-> Url(<<"api", "v9", "channels", "1", "messages">>, "limit=100"), method |-> "GET"],
      [url |-> Url(<<"api", "v9", "users", "@me", "relationships", "7">>, ""), method |-> "DELETE"] }

NoReq == [id |-> 0, url |-> [valid |-> FALSE, path |-> <<>>, query |-> ""], method |-> "none"]

(***************************************************************************)
(* RateLimiterActor::get_route.  A route key "a/b/c" is <<"a","b","c">>.   *)
(***************************************************************************)
Position(segs, s) ==
    IF \E i \in 1..Len(segs) : segs[i] = s
    THEN CHOOSE i \in 1..Len(segs) : segs[i] = s /\ \A j \in 1..(i - 1) : segs[j] # s
    ELSE 0

Contains(segs, s) == \E i \in 1..Len(segs) : segs[i] = s

\* a key that includes the query string
RouteOfUrlAndQuery(url) ==
    IF ~url.valid THEN <<"default">> ELSE Append(url.path, url.query)

\* a key that is the whole path
RouteOfWholePath(url) == IF ~url.valid THEN <<"default">> ELSE url.path

get_route(url) ==
    IF ~url.valid THEN <<"default">>
    ELSE LET segments == SelectSeq(url.path, LAMBDA x : x # "")
             c == Position(segments, "channels")
             g == Position(segments, "guilds")
         IN IF c > 0 /\ c + 1 <= Len(segments)
            THEN IF c + 2 <= Len(segments) /\ segments[c + 2] = "messages"
                 THEN <<"channels", segments[c + 1], "messages">>
                 ELSE <<"channels", segments[c + 1]>>
            ELSE IF g > 0 /\ g + 1 <= Len(segments)
            THEN <<"guilds", segments[g + 1]>>
            ELSE IF Contains(segments, "relationships") THEN <<"relationships">>
            ELSE IF Contains(segments, "@me") THEN <<"users", "@me">>
            ELSE <<"default">>

RouteKeys == {get_route(rq.url) : rq \in DispatchRequests}

(***************************************************************************)
(* BucketInfo and the bucket table.                                        *)
(***************************************************************************)
NoBucket == [present |-> FALSE, remaining |-> 0, reset_at |-> 0, limit |-> 0,
             consecutive_429s |-> 0]

\* BucketInfo::default: reset_at = Instant::now()
BucketDefault == [present |-> TRUE, remaining |-> 1, reset_at |-> 0, limit |-> 1,
                  consecutive_429s |-> 0]

\* a new bucket that is used up for 1 s
OrExhausted(b) ==
    IF b.present THEN b
    ELSE [present |-> TRUE, remaining |-> 0, reset_at |-> 10, limit |-> 1,
          consecutive_429s |-> 0]

\* buckets.entry(route).or_default()
OrDefault(b) == IF b.present THEN b ELSE BucketDefault

\* an Instant d ticks ahead, e ticks later
Shift(d, e) == IF d > e THEN d - e ELSE 0

\* the bucket table e ticks later
Elapse(bs, e) == [r \in DOMAIN bs |-> [bs[r] EXCEPT !.reset_at = Shift(bs[r].reset_at, e)]]

\* a global throttle that blocks nothing
NeverBlocked(g) == FALSE

\* a throttle check that lets a call through in the last second of the
\* throttle
GlobalBlockedButLastSecond(g) == g > 10

\* if now < *global
GlobalBlocked(g) == g > 0

\* now >= bucket.reset_at
WindowPassed(b) == b.reset_at = 0

\* a passed window that restores nothing
RollSkipped(b) == b

\* if now >= bucket.reset_at { bucket.remaining = bucket.limit; }
Roll(b) == IF WindowPassed(b) THEN [b EXCEPT !.remaining = b.limit] ELSE b

\* a wait that is always zero
NoWait(b) == 0

\* bucket.reset_at.saturating_duration_since(now)
SaturatingDurationSince(b) == b.reset_at

\* an admission that takes nothing from the bucket
NoDecrement(b) == b

\* bucket.remaining = bucket.remaining.saturating_sub(1)
Decrement(b) == [b EXCEPT !.remaining = IF b.remaining > 0 THEN b.remaining - 1 ELSE 0]

\* a retry test that allows no retry
CanRetryNever(rc) == FALSE

\* a retry test that allows one retry more
CanRetryOnceMore(rc) == rc <= MAX_RETRIES

\* retry_count < MAX_RETRIES
CanRetry(rc) == rc < MAX_RETRIES

\* a status test that takes no response for a 429
Never429(status) == FALSE

\* status.as_u16() == 429
Is429(status) == status = 429

\* a status test that takes every error status for a server error
RetryAnyError(status) == status >= 400

\* !status.is_success() && status.is_server_error()
IsServerError(status) == status >= 500 /\ status <= 599

(***************************************************************************)
(* RateLimiterActor::update_limits, now being the instant it reads.        *)
(***************************************************************************)
\* a backoff whose exponent has no cap
Wait429Uncapped(resp, c) ==
    (IF resp.retry_after.some THEN resp.retry_after.v ELSE DefaultRetryAfter)
    + (IF c > 1 THEN Sec(Pow2(c)) ELSE 0)

\* wait = Retry-After, plus 2^min(consecutive_429s, 6) s from the second
\* consecutive 429 on
Wait429(resp, c) ==
    (IF resp.retry_after.some THEN resp.retry_after.v ELSE DefaultRetryAfter)
    + (IF c > 1 THEN Sec(Pow2(Min(c, BackoffCap))) ELSE 0)

\* a global 429 that sets no wait
GlobalNotSet(wait) == 0

\* *g = now + wait
GlobalAfter429(wait) == wait

\* a 429 that leaves the bucket as the headers set it
BucketKept(b, wait) == b

\* bucket.remaining = 0; bucket.reset_at = now + wait
BucketAfter429(b, wait) == [b EXCEPT !.remaining = 0, !.reset_at = wait]

\* feedback that leaves consecutive_429s alone
ApplyRemainingOnly(b, resp, is_429) ==
    IF resp.rem.some THEN [b EXCEPT !.remaining = resp.rem.v] ELSE b

\* consecutive_429s and X-RateLimit-Remaining
ApplyRemaining(b, resp, is_429) ==
    LET b1 == [b EXCEPT !.consecutive_429s = IF is_429 THEN b.consecutive_429s + 1 ELSE 0]
    IN IF resp.rem.some THEN [b1 EXCEPT !.remaining = resp.rem.v] ELSE b1

\* feedback that does not read X-RateLimit-Limit
ApplyHeadersButLimit(b, resp, is_429) ==
    LET b1 == [b EXCEPT !.consecutive_429s = IF is_429 THEN b.consecutive_429s + 1 ELSE 0]
        b2 == IF resp.rem.some THEN [b1 EXCEPT !.remaining = resp.rem.v] ELSE b1
    IN IF resp.reset.some THEN [b2 EXCEPT !.reset_at = resp.reset.v] ELSE b2

\* X-RateLimit-Reset-After and X-RateLimit-Limit
ApplyHeaders(b, resp, is_429) ==
    LET b2 == ApplyRemaining(b, resp, is_429)
        b3 == IF resp.reset.some THEN [b2 EXCEPT !.reset_at = resp.reset.v] ELSE b2
    IN IF resp.lim.some THEN [b3 EXCEPT !.limit = resp.lim.v] ELSE b3

\* feedback in which a global 429 closes the bucket as well
update_limits_closing_bucket(b, g, resp, is_429) ==
    LET h == ApplyHeaders(OrDefault(b), resp, is_429)
        wait == Wait429(resp, h.consecutive_429s)
    IN IF resp.reset.some /\ from_secs_f32_panics(resp.reset.v)
       THEN [bucket |-> ApplyRemaining(OrDefault(b), resp, is_429), global |-> g,
             panicked |-> TRUE]
       ELSE IF ~is_429 THEN [bucket |-> h, global |-> g, panicked |-> FALSE]
       ELSE IF resp.retry_after.some /\ from_secs_f32_panics(resp.retry_after.v)
       THEN [bucket |-> h, global |-> g, panicked |-> TRUE]
       ELSE [bucket |-> BucketAfter429(h, wait),
             global |-> IF resp.global THEN GlobalAfter429(wait) ELSE g,
             panicked |-> FALSE]

\* the bucket and the global throttle after update_limits, or as the panic
\* of Duration::from_secs_f32 leaves them
update_limits(b, g, resp, is_429) ==
    LET h == ApplyHeaders(OrDefault(b), resp, is_429)
        wait == Wait429(resp, h.consecutive_429s)
    IN IF resp.reset.some /\ from_secs_f32_panics(resp.reset.v)
       THEN [bucket |-> ApplyRemaining(OrDefault(b), resp, is_429), global |-> g,
             panicked |-> TRUE]
       ELSE IF ~is_429 THEN [bucket |-> h, global |-> g, panicked |-> FALSE]
       ELSE IF resp.retry_after.some /\ from_secs_f32_panics(resp.retry_after.v)
       THEN [bucket |-> h, global |-> g, panicked |-> TRUE]
       ELSE IF resp.global
       THEN [bucket |-> h, global |-> GlobalAfter429(wait), panicked |-> FALSE]
       ELSE [bucket |-> BucketAfter429(h, wait), global |-> g, panicked |-> FALSE]

(***************************************************************************)
(* History kept for the claims.                                            *)
(***************************************************************************)
\* of the request in progress: calls sent, 429 responses, transport errors,
\* whether it has slept on the global throttle, 5xx responses, and the
\* status of the response its latest call got (0: none yet, or the call
\* failed in transport)
NoAtt == [calls |-> 0, n429 |-> 0, ntrans |-> 0, gslept |-> FALSE, n5xx |-> 0,
          status |-> 0]

\* the counters after a response that is no 429
AttAfterResponse(a, status) ==
    [a EXCEPT !.status = status,
              !.n5xx = IF status >= 500 /\ status <= 599 THEN a.n5xx + 1 ELSE a.n5xx]

\* the 429 response just processed (while its body is read)
NoLast == [valid |-> FALSE, route |-> <<>>, resp |-> NoResponse]

NoResult == [kind |-> "none", status |-> 0]

\* the latest instant T + t of a global 429 processed at T with Retry-After t
NoDeadline == [set |-> FALSE, at |-> 0]

\* per route: calls admitted while reset_at and limit are unchanged and
\* reset_at is not passed; whether the last write to the bucket left
\* sends + remaining <= limit; whether the bucket was created after a
\* global 429 had been processed
NoWin == [sends |-> 0, clean |-> TRUE, afterGlobal |-> FALSE]

\* per route: the instant T + d of the response processed at T, the latest
\* of the route, when it carried X-RateLimit-Remaining: 0 and
\* X-RateLimit-Reset-After: d, and whether it was a 429 without
\* X-RateLimit-Global
NoHeaderDeadline == [set |-> FALSE, at |-> 0, after429 |-> FALSE]

ElapseDeadlines(hd, e) == [r \in DOMAIN hd |-> [hd[r] EXCEPT !.at = Shift(hd[r].at, e)]]

HeaderDeadlineOf(resp, is_429) ==
    IF resp.rem = Some(0) /\ resp.reset.some
    THEN [set |-> TRUE, at |-> resp.reset.v, after429 |-> is_429 /\ ~resp.global]
    ELSE NoHeaderDeadline

\* the window of a bucket after feedback turned ob into nb
WinAfterFeedback(wn, ob, nb) ==
    LET k == IF nb.reset_at # ob.reset_at \/ nb.limit # ob.limit THEN 0 ELSE wn.sends
    IN [wn EXCEPT !.sends = k,
                  !.clean = IF nb.remaining = ob.remaining /\ nb.reset_at = ob.reset_at
                               /\ nb.limit = ob.limit
                            THEN wn.clean
                            ELSE k + nb.remaining <= nb.limit]

(***************************************************************************)
(* RateLimiterActor::new, with no request submitted yet.                   *)
(***************************************************************************)
LimInit ==
    /\ inbox = <<>>
    /\ submitted = 0
    /\ cur = NoReq
    /\ lpc = "recv"
    /\ retry_count = 0
    /\ wake = 0
    /\ buckets = [r \in RouteKeys |-> NoBucket]
    /\ global_reset_at = 0
    /\ result = NoResult
    /\ written = [id \in 1..MaxRequests |-> 0]
    /\ returned = [id \in 1..MaxRequests |-> "none"]
    /\ att = NoAtt
    /\ last = NoLast
    /\ globalDeadline = NoDeadline
    /\ win = [r \in RouteKeys |-> NoWin]
    /\ headerDeadline = [r \in RouteKeys |-> NoHeaderDeadline]

(***************************************************************************)
(* ApiHandle::send_request: the request enters the inbox and the caller    *)
(* awaits response_rx ("pending"); self.tx.send fails when the inbox is    *)
(* closed (limiter_offline).  The caller's return value is "written" (the  *)
(* result the dispatcher wrote), limiter_offline or limiter_timeout.       *)
(***************************************************************************)
send_request ==
    /\ submitted < MaxRequests
    /\ IF lpc = "dead"
       THEN /\ returned' = [returned EXCEPT ![submitted + 1] = "limiter_offline"]
            /\ UNCHANGED inbox
       ELSE /\ \E rq \in DispatchRequests :
                  inbox' = Append(inbox, [id |-> submitted + 1, url |-> rq.url,
                                          method |-> rq.method])
            /\ returned' = [returned EXCEPT ![submitted + 1] = "pending"]
    /\ submitted' = submitted + 1
    /\ UNCHANGED <<cur, lpc, retry_count, wake, buckets, global_reset_at, result, written,
                   att, last, globalDeadline, win, headerDeadline>>

(***************************************************************************)
(* RateLimiterActor::run.                                                  *)
(***************************************************************************)
\* e ticks pass
TimePasses(e) ==
    /\ buckets' = Elapse(buckets, e)
    /\ global_reset_at' = Shift(global_reset_at, e)
    /\ globalDeadline' = [globalDeadline EXCEPT !.at = Shift(globalDeadline.at, e)]
    /\ headerDeadline' = ElapseDeadlines(headerDeadline, e)

\* a receive that does not wait for the request in progress to be answered
run_recv_early ==
    /\ lpc \in {"recv", "delivered", "admit"}
    /\ inbox # <<>>
    /\ \E e \in 0..MaxLag : TimePasses(e)
    /\ cur' = Head(inbox)
    /\ inbox' = Tail(inbox)
    /\ retry_count' = 0
    /\ lpc' = "admit"
    /\ att' = NoAtt
    /\ result' = NoResult
    /\ UNCHANGED <<submitted, wake, written, returned, last, win>>

\* a receive that carries the retry counter over to the next request
run_recv_keeps_count ==
    /\ lpc \in {"recv", "delivered"}
    /\ inbox # <<>>
    /\ \E e \in 0..MaxLag : TimePasses(e)
    /\ cur' = Head(inbox)
    /\ inbox' = Tail(inbox)
    /\ retry_count' = retry_count
    /\ lpc' = "admit"
    /\ att' = NoAtt
    /\ result' = NoResult
    /\ UNCHANGED <<submitted, wake, written, returned, last, win>>

\* while let Some(request) = self.inbox.recv().await ; route ; retry_count = 0
run_recv ==
    /\ lpc \in {"recv", "delivered"}
    /\ inbox # <<>>
    /\ \E e \in 0..MaxLag : TimePasses(e)
    /\ cur' = Head(inbox)
    /\ inbox' = Tail(inbox)
    /\ retry_count' = 0
    /\ lpc' = "admit"
    /\ att' = NoAtt
    /\ result' = NoResult
    /\ UNCHANGED <<submitted, wake, written, returned, last, win>>

\* the call leaves: at once for a GET, after the jitter sleep otherwise
Launch ==
    IF cur.method # "GET"
    THEN /\ lpc' = "jitter"
         /\ \E j \in Jitters : wake' = j
         /\ UNCHANGED att
    ELSE /\ lpc' = "inflight"
         /\ wake' = 0
         /\ att' = [att EXCEPT !.calls = att.calls + 1]

\* one pass of the loop from let now = Instant::now() to the sleep it
\* reaches or to the call
run_admit ==
    /\ lpc = "admit"
    /\ IF GlobalBlocked(global_reset_at)
       THEN /\ lpc' = "global_sleep"
            /\ wake' = global_reset_at
            /\ att' = [att EXCEPT !.gslept = TRUE]
            /\ UNCHANGED <<buckets, win>>
       ELSE LET r == get_route(cur.url)
                b0 == OrDefault(buckets[r])
                w0 == IF buckets[r].present THEN win[r]
                      ELSE [NoWin EXCEPT !.afterGlobal = globalDeadline.set]
                b1 == Roll(b0)
                wait == SaturatingDurationSince(b1)
            IN IF b1.remaining = 0 /\ wait # 0
               THEN /\ buckets' = [buckets EXCEPT ![r] = b1]
                    /\ win' = [win EXCEPT ![r] = w0]
                    /\ lpc' = "bucket_sleep"
                    /\ wake' = wait + BucketBuffer
                    /\ UNCHANGED att
               ELSE LET b2 == IF b1.remaining = 0 THEN [b1 EXCEPT !.remaining = b1.limit] ELSE b1
                    IN /\ buckets' = [buckets EXCEPT ![r] = Decrement(b2)]
                       /\ win' = [win EXCEPT ![r] =
                                    IF WindowPassed(b0)
                                    THEN [w0 EXCEPT !.sends = 0, !.clean = TRUE]
                                    ELSE [w0 EXCEPT !.sends = w0.sends + 1]]
                       /\ Launch
    /\ UNCHANGED <<inbox, submitted, cur, retry_count, global_reset_at, result, written,
                   returned,
                   last, globalDeadline, headerDeadline>>

\* tokio::time::sleep(..).await; continue  (global, bucket and retry waits)
run_sleep_elapsed ==
    /\ lpc \in {"global_sleep", "bucket_sleep", "retry_sleep"}
    /\ \E lag \in 0..MaxLag : TimePasses(wake + lag)
    /\ lpc' = "admit"
    /\ wake' = 0
    /\ UNCHANGED <<inbox, submitted, cur, retry_count, result, written, returned, att, last, win>>

\* the jitter sleep is over: req_builder.send()
run_jitter_elapsed ==
    /\ lpc = "jitter"
    /\ \E lag \in 0..MaxLag : TimePasses(wake + lag)
    /\ lpc' = "inflight"
    /\ wake' = 0
    /\ att' = [att EXCEPT !.calls = att.calls + 1]
    /\ UNCHANGED <<inbox, submitted, cur, retry_count, result, written, returned, last, win>>

\* a delivery that does not leave the loop
DeliverAndContinue(res) ==
    /\ result' = res
    /\ written' = [written EXCEPT ![cur.id] = written[cur.id] + 1]
    /\ returned' = [returned EXCEPT ![cur.id] = "written"]
    /\ lpc' = "admit"
    /\ retry_count' = retry_count
    /\ wake' = 0
    /\ cur' = cur

\* request.response_tx.send(res); break
Deliver(res) ==
    /\ result' = res
    /\ written' = [written EXCEPT ![cur.id] = written[cur.id] + 1]
    /\ returned' = [returned EXCEPT ![cur.id] = "written"]
    /\ lpc' = "delivered"
    /\ retry_count' = retry_count
    /\ wake' = 0
    /\ cur' = cur

\* retry_count += 1; sleep(retry_count seconds); continue
Retry ==
    /\ retry_count' = retry_count + 1
    /\ lpc' = "retry_sleep"
    /\ wake' = Sec(retry_count + 1)
    /\ UNCHANGED <<cur, result, written, returned>>

\* Err(e) of req_builder.send().await
run_transport_error ==
    /\ lpc = "inflight"
    /\ \E lag \in 0..MaxLag : TimePasses(lag)
    /\ att' = [att EXCEPT !.ntrans = att.ntrans + 1, !.status = 0]
    /\ IF CanRetry(retry_count) THEN Retry
       ELSE Deliver([kind |-> "Err", status |-> 0])
    /\ UNCHANGED <<inbox, submitted, last, win>>

\* Ok(response) of req_builder.send().await, with update_limits; a panic of
\* update_limits ends the task that runs the dispatcher
run_response_of(server) ==
    /\ lpc = "inflight"
    /\ \E lag \in 0..MaxLag, resp \in server :
          /\ resp.status = 429 => att.n429 < Max429
          /\ LET r == get_route(cur.url)
                 is_429 == Is429(resp.status)
                 old == Elapse(buckets, lag)
                 u == update_limits(old[r], Shift(global_reset_at, lag), resp, is_429)
             IN /\ buckets' = [old EXCEPT ![r] = u.bucket]
                /\ global_reset_at' = u.global
                /\ win' = [win EXCEPT ![r] = WinAfterFeedback(win[r], old[r], u.bucket)]
                /\ globalDeadline' =
                      IF is_429 /\ resp.global /\ resp.retry_after.some /\ ~u.panicked
                      THEN [set |-> TRUE,
                            at |-> Max(Shift(globalDeadline.at, lag), resp.retry_after.v)]
                      ELSE [globalDeadline EXCEPT !.at = Shift(globalDeadline.at, lag)]
                /\ headerDeadline' =
                      [ElapseDeadlines(headerDeadline, lag) EXCEPT
                          ![r] = IF u.panicked THEN @ ELSE HeaderDeadlineOf(resp, is_429)]
                /\ IF u.panicked
                   THEN /\ lpc' = "panicked"
                        /\ UNCHANGED <<cur, retry_count, wake, result, written, returned,
                                       last, att>>
                   ELSE IF is_429
                   THEN /\ lpc' = "body_429"
                        /\ last' = [valid |-> TRUE, route |-> r, resp |-> resp]
                        /\ att' = [att EXCEPT !.n429 = att.n429 + 1, !.status = resp.status]
                        /\ UNCHANGED <<cur, retry_count, wake, result, written, returned>>
                   ELSE IF IsServerError(resp.status) /\ CanRetry(retry_count)
                   THEN /\ Retry
                        /\ att' = AttAfterResponse(att, resp.status)
                        /\ UNCHANGED last
                   ELSE /\ Deliver([kind |-> "Ok", status |-> resp.status])
                        /\ att' = AttAfterResponse(att, resp.status)
                        /\ UNCHANGED last
    /\ UNCHANGED <<inbox, submitted>>

\* the responses of the server of the dispatcher runs
run_response == run_response_of(Responses)

\* response.text().await of a 429; continue
run_429_body ==
    /\ lpc = "body_429"
    /\ lpc' = "admit"
    /\ last' = NoLast
    /\ UNCHANGED <<inbox, submitted, cur, retry_count, wake, buckets, global_reset_at,
                   result, written, returned, att, globalDeadline, win, headerDeadline>>

\* the MutexGuards in scope at a position of run: the global guard of the
\* throttle block is alive across its sleep; the bucket guard is dropped
\* before the bucket sleep and its block ends before the jitter and the call;
\* update_limits has returned before the retry sleeps
LocksHeld(pc) == IF pc = "global_sleep" THEN {"global_reset_at"} ELSE {}

\* a dispatcher that ends without dropping the requests it holds
run_unwind_keeps_requests ==
    /\ lpc = "panicked"
    /\ lpc' = "dead"
    /\ UNCHANGED <<inbox, submitted, cur, retry_count, wake, buckets, global_reset_at,
                   result, written, returned, att, last, globalDeadline, win,
                   headerDeadline>>

\* the task that runs the dispatcher (main.rs) ends by the panic: the actor
\* is dropped, with it the inbox (closed, the requests queued in it
\* dropped) and the request in progress; a dropped response_tx makes
\* response_rx.await fail (limiter_timeout)
run_unwind ==
    /\ lpc = "panicked"
    /\ lpc' = "dead"
    /\ LET dropped == {cur.id} \cup {inbox[i].id : i \in 1..Len(inbox)}
       IN returned' = [id \in 1..MaxRequests |->
                         IF id \in dropped THEN "limiter_timeout" ELSE returned[id]]
    /\ inbox' = <<>>
    /\ cur' = NoReq
    /\ UNCHANGED <<submitted, retry_count, wake, buckets, global_reset_at, result, written,
                   att, last, globalDeadline, win, headerDeadline>>

(***************************************************************************)
(* What run does to the bucket and the global throttle with the outcome of *)
(* one call: update_limits for every bucket, global throttle and response  *)
(* of the bounded sets, and the Err arm, which has no response.            *)
(***************************************************************************)
\* largest consecutive_429s a bucket starts with
MaxStreak == 7

NoOut == [bucket |-> NoBucket, global |-> 0, panicked |-> FALSE]

NoFb == [pc |-> "none", b |-> NoBucket, g |-> 0, resp |-> NoResponse, out |-> NoOut]

\* the buckets update_limits may find: none, or any field values
FbBuckets ==
    {NoBucket} \cup
    [present : {TRUE}, remaining : 0..MaxLimit, reset_at : {0, 5}, limit : 0..MaxLimit,
     consecutive_429s : 0..MaxStreak]

\* no call of get_route on its own
NoGr == [pc |-> "none", a |-> NoReq, b |-> NoReq, ka |-> <<>>, kb |-> <<>>, again |-> <<>>]

FbInit ==
    /\ OpInit
    /\ LimInit
    /\ gr = NoGr
    /\ fb \in [pc : {"call"}, b : FbBuckets, g : {0, 5},
               resp : AllResponses \cup {NoResponse}, out : {NoOut}]

\* Ok(response): self.update_limits(&route, &response, is_429).await
fb_update_limits ==
    /\ fb.pc = "call"
    /\ fb.resp # NoResponse
    /\ LET u == update_limits(fb.b, fb.g, fb.resp, Is429(fb.resp.status))
       IN fb' = [fb EXCEPT !.pc = IF u.panicked THEN "panicked" ELSE "returned", !.out = u]
    /\ UNCHANGED <<opVars, limVars, gr>>

\* Err(e): the arm writes neither the bucket nor the global throttle
fb_transport_error ==
    /\ fb.pc = "call"
    /\ fb.resp = NoResponse
    /\ fb' = [fb EXCEPT !.pc = "failed",
                        !.out = [bucket |-> fb.b, global |-> fb.g, panicked |-> FALSE]]
    /\ UNCHANGED <<opVars, limVars, gr>>

FbNext == fb_update_limits \/ fb_transport_error

FeedbackSpec == FbInit /\ [][FbNext]_vars

(***************************************************************************)
(* get_route on its own, for pairs of requests of the bounded sets.  A     *)
(* request is what ApiRequest carries for the dispatcher: method, url,     *)
(* auth_token and is_bearer; its url is what url::Url::parse makes of the  *)
(* string (valid or not, the path segments between the slashes, the        *)
(* query).                                                                 *)
(***************************************************************************)
\* longest path, in segments, of the URLs enumerated in full
MaxSegs == 2

\* the segments of the enumerated paths; "" is what two slashes in a row
\* leave between them
Segments == {"api", "channels", "guilds", "relationships", "@me", "messages", "1", ""}

RECURSIVE SeqsUpTo(_, _)
SeqsUpTo(S, n) ==
    IF n = 0 THEN {<<>>}
    ELSE LET shorter == SeqsUpTo(S, n - 1)
         IN shorter \cup {Append(q, x) : q \in shorter, x \in S}

\* the channel ids of the longer paths
ChannelIds == {"1", "2"}

\* what the callers of api/discord.rs address below a channel: the channel
\* itself, its message list, one message, a reaction of a message, and
\* other sub-resources
ChannelSubResources ==
    { <<>>, <<"messages">>, <<"messages", "5">>,
      <<"messages", "5", "reactions", "e", "@me">>, <<"pins">>, <<"webhooks">> }

ChannelPaths(x) == {<<"api", "v9", "channels", x>> \o sub : sub \in ChannelSubResources}

RoutePaths == SeqsUpTo(Segments, MaxSegs) \cup UNION {ChannelPaths(x) : x \in ChannelIds}

RouteQueries == {"", "limit=100", "before=7&around=channels/2/messages"}

RouteMethods == {"GET", "DELETE"}

\* auth_token with is_bearer
RouteAuths == {[auth_token |-> "user-token", is_bearer |-> FALSE],
               [auth_token |-> "oauth-token", is_bearer |-> TRUE]}

RouteRequest(valid, path, query, method, auth) ==
    [url |-> [valid |-> valid, path |-> path, query |-> query], method |-> method,
     auth |-> auth]

\* the first request of a pair: any of the bounded sets
FirstRequests ==
    {RouteRequest(v, p, q, m, a) :
        v \in BOOLEAN, p \in RoutePaths, q \in {"", "limit=100"}, m \in {"GET"},
        a \in RouteAuths}

\* the second: the same URL string up to its query, with any method and
\* auth token, or any request of the same channel
SecondRequests(a) ==
    {RouteRequest(a.url.valid, a.url.path, q, m, au) :
        q \in RouteQueries, m \in RouteMethods, au \in RouteAuths}
    \cup
    {RouteRequest(TRUE, p, a.url.query, a.method, a.auth) :
        p \in UNION {IF a.url.path \in ChannelPaths(x) THEN ChannelPaths(x) ELSE {} :
                        x \in ChannelIds}}

GrInit ==
    /\ OpInit
    /\ LimInit
    /\ fb = NoFb
    /\ \E a \in FirstRequests : \E b \in SecondRequests(a) :
          gr = [pc |-> "call", a |-> a, b |-> b, ka |-> <<>>, kb |-> <<>>, again |-> <<>>]

\* let route = Self::get_route(&request.url), for both requests and once
\* more for the first
gr_get_route ==
    /\ gr.pc = "call"
    /\ gr' = [gr EXCEPT !.pc = "returned", !.ka = get_route(gr.a.url),
                         !.kb = get_route(gr.b.url), !.again = get_route(gr.a.url)]
    /\ UNCHANGED <<opVars, limVars, fb>>

GrNext == gr_get_route

RouteSpec == GrInit /\ [][GrNext]_vars

\* OperationManager::new and RateLimiterActor::new
Init == OpInit /\ LimInit /\ fb = NoFb /\ gr = NoGr

\* the dispatcher alone, the workflows being any callers of send_request
LimNext ==
    \/ send_request /\ UNCHANGED <<opVars, fb, gr>>
    \/ run_recv /\ UNCHANGED <<opVars, fb, gr>>
    \/ run_admit /\ UNCHANGED <<opVars, fb, gr>>
    \/ run_sleep_elapsed /\ UNCHANGED <<opVars, fb, gr>>
    \/ run_jitter_elapsed /\ UNCHANGED <<opVars, fb, gr>>
    \/ run_transport_error /\ UNCHANGED <<opVars, fb, gr>>
    \/ run_response /\ UNCHANGED <<opVars, fb, gr>>
    \/ run_429_body /\ UNCHANGED <<opVars, fb, gr>>
    \/ run_unwind /\ UNCHANGED <<opVars, fb, gr>>

LimSpec == Init /\ [][LimNext]_vars

\* a step of the task that runs RateLimiterActor::run
DispatcherStep ==
    \/ run_recv
    \/ run_admit
    \/ run_sleep_elapsed
    \/ run_jitter_elapsed
    \/ run_transport_error
    \/ run_response
    \/ run_429_body
    \/ run_unwind

\* the async runtime keeps running the dispatcher task while it can take a
\* step: every sleep ends and every call is answered; the callers are not
\* forced to send
FairLimSpec ==
    /\ LimSpec
    /\ WF_vars(DispatcherStep /\ UNCHANGED <<opVars, fb, gr>>)

(***************************************************************************)
(* One request from the loop of RateLimiterActor::run to its result, from  *)
(* any state of its bucket and of the global throttle, the server sending  *)
(* any response.                                                           *)
(***************************************************************************)
MaxAdmitLimit == 2

\* the bucket of the route when the request is received: none yet, or any
\* quota with its window passed or 0.5 s from its end
AdmitBuckets ==
    {NoBucket} \cup
    [present : {TRUE}, remaining : 0..MaxAdmitLimit, reset_at : {0, 5},
     limit : 0..MaxAdmitLimit, consecutive_429s : {0, 1}]

AttemptInit ==
    /\ OpInit
    /\ fb = NoFb
    /\ gr = NoGr
    /\ inbox = <<>>
    /\ submitted = 1
    /\ \E rq \in DispatchRequests : cur = [id |-> 1, url |-> rq.url, method |-> rq.method]
    /\ lpc = "admit"
    /\ retry_count = 0
    /\ wake = 0
    /\ \E b \in AdmitBuckets :
          buckets = [r \in RouteKeys |-> IF r = get_route(cur.url) THEN b ELSE NoBucket]
    /\ global_reset_at \in {0, 5}
    /\ result = NoResult
    /\ written = [id \in 1..MaxRequests |-> 0]
    /\ returned = [id \in 1..MaxRequests |-> IF id = 1 THEN "pending" ELSE "none"]
    /\ att = NoAtt
    /\ last = NoLast
    /\ globalDeadline = NoDeadline
    /\ win = [r \in RouteKeys |-> NoWin]
    /\ headerDeadline = [r \in RouteKeys |-> NoHeaderDeadline]

\* the responses of a server that sends the three rate-limit headers
\* together or not at all, every X-RateLimit-Reset-After being a Duration
AttemptResponses ==
    {x \in AllResponses :
        /\ x.status # 404
        /\ x.rem.some = x.reset.some /\ x.reset.some = x.lim.some
        /\ x.reset.some => ~from_secs_f32_panics(x.reset.v)
        /\ x.retry_after \in {None, Some(2)}}

\* Ok(response) of that server
run_response_any == run_response_of(AttemptResponses)

AttemptNext ==
    \/ run_admit /\ UNCHANGED <<opVars, fb, gr>>
    \/ run_sleep_elapsed /\ UNCHANGED <<opVars, fb, gr>>
    \/ run_jitter_elapsed /\ UNCHANGED <<opVars, fb, gr>>
    \/ run_transport_error /\ UNCHANGED <<opVars, fb, gr>>
    \/ run_response_any /\ UNCHANGED <<opVars, fb, gr>>
    \/ run_429_body /\ UNCHANGED <<opVars, fb, gr>>

AttemptSpec == AttemptInit /\ [][AttemptNext]_vars

(***************************************************************************)
(* The operation state machine with its workflows.                         *)
(***************************************************************************)
WorkflowStart(w) ==
    \/ bulk_remove_relationships_start(w) /\ UNCHANGED <<limVars, fb, gr>>
    \/ bury_audit_log_start(w) /\ UNCHANGED <<limVars, fb, gr>>
    \/ bulk_delete_messages_start(w) /\ UNCHANGED <<limVars, fb, gr>>

WorkflowStep(w) ==
    \/ wait_if_paused(w) /\ UNCHANGED <<limVars, fb, gr>>
    \/ reset(w) /\ UNCHANGED <<limVars, fb, gr>>
    \/ bulk_remove_relationships_check(w) /\ UNCHANGED <<limVars, fb, gr>>
    \/ bulk_remove_relationships_sent(w) /\ UNCHANGED <<limVars, fb, gr>>
    \/ bury_audit_log_get(w) /\ UNCHANGED <<limVars, fb, gr>>
    \/ bury_audit_log_check(w) /\ UNCHANGED <<limVars, fb, gr>>
    \/ bury_audit_log_patch1(w) /\ UNCHANGED <<limVars, fb, gr>>
    \/ bury_audit_log_sleep1(w) /\ UNCHANGED <<limVars, fb, gr>>
    \/ bury_audit_log_patch2(w) /\ UNCHANGED <<limVars, fb, gr>>
    \/ bulk_delete_messages_check(w) /\ UNCHANGED <<limVars, fb, gr>>
    \/ bulk_delete_messages_get(w) /\ UNCHANGED <<limVars, fb, gr>>
    \/ bulk_delete_messages_msg(w) /\ UNCHANGED <<limVars, fb, gr>>
    \/ bulk_delete_messages_reaction(w) /\ UNCHANGED <<limVars, fb, gr>>
    \/ bulk_delete_messages_reacted(w) /\ UNCHANGED <<limVars, fb, gr>>
    \/ bulk_delete_messages_deleted(w) /\ UNCHANGED <<limVars, fb, gr>>

Control ==
    \/ pause_operation /\ UNCHANGED <<limVars, fb, gr>>
    \/ resume_operation /\ UNCHANGED <<limVars, fb, gr>>
    \/ abort_operation_store_abort /\ UNCHANGED <<limVars, fb, gr>>
    \/ abort_operation_store_paused /\ UNCHANGED <<limVars, fb, gr>>

OpNext ==
    \/ Control
    \/ \E w \in Workflows : WorkflowStart(w)
    \/ \E w \in Workflows : WorkflowStep(w)

\* the operation state machine alone, send_request being any outcome
OpSpec == Init /\ [][OpNext]_vars

\* the async runtime keeps running every workflow that can take a step and
\* every abort_operation that has begun; the user's commands are not forced
FairOpSpec ==
    /\ OpSpec
    /\ \A w \in Workflows : WF_vars(WorkflowStep(w))
    /\ WF_vars(abort_operation_store_paused /\ UNCHANGED <<limVars, fb, gr>>)

(***************************************************************************)
(* Claims on the operation state machine.                                  *)
(***************************************************************************)

\* C1: a workflow suspended inside wait_if_paused, once resume_operation has
\* been executed and unless pause_operation is executed again, eventually
\* returns from wait_if_paused.
C1_ResumeWakesWaiter ==
    \A w \in Workflows :
        (Parked(w) /\ lastCtl = "resume") ~> (~Parked(w) \/ lastCtl = "pause")

\* C2: a workflow suspended inside wait_if_paused, once abort_operation has
\* been executed (both stores), eventually returns from wait_if_paused.
C2_AbortWakesWaiter ==
    \A w \in Workflows :
        (Parked(w) /\ lastCtl = "abort" /\ abort_pc = "idle") ~> ~Parked(w)

\* C3: whenever a workflow command that stored is_running = true has
\* returned and no workflow is active, is_running is false.
C3_ResetOnEveryExit ==
    ((\E w \in Workflows : wf[w].pc = "done") /\ (\A w \in Workflows : ~Active(w)))
        => ~is_running

\* C4: a workflow that starts after the previous workflow has terminated,
\* with no control call since that termination began and no other workflow
\* active, begins with is_paused = false and should_abort = false.
C4_NextWorkflowStartsClean ==
    [][ ( /\ \A w \in Workflows : ~Active(w)
          /\ \E w \in Workflows : wf[w].pc = "done"
          /\ lastCtl = "none"
          /\ abort_pc = "idle"
          /\ \E w \in Workflows : Active(w)' )
        => (~is_paused' /\ ~should_abort') ]_vars

(***************************************************************************)
(* Claims on the dispatcher.                                               *)
(***************************************************************************)
\* the route of the request in progress
CurRoute == get_route(cur.url)

\* C5: whenever the dispatcher sends an HTTP call (lpc = "inflight" is the
\* instant of the send), the current time is not earlier than
\* global_reset_at.
C5_NoSendUnderGlobalThrottle == lpc = "inflight" => global_reset_at = 0

\* a retry is sent by a request that has slept on the global throttle
C5_Witness == lpc = "inflight" /\ att.gslept /\ retry_count > 0

\* C6: after a global 429 with Retry-After t processed at T no call of any
\* route is sent before T + t (globalDeadline.at is the latest such T + t),
\* the route's bucket being created after T or not.
C6_NoSendBeforeGlobalDeadline == lpc = "inflight" => globalDeadline.at = 0

\* a call is sent for a route whose bucket was created after a global 429
C6_Witness == lpc = "inflight" /\ globalDeadline.set /\ win[CurRoute].afterGlobal

\* the Retry-After of a 429 response, 1 s when the header is absent
RetryAfterOf(resp) == IF resp.retry_after.some THEN resp.retry_after.v ELSE DefaultRetryAfter

\* C7: when update_limits has returned from a 429 response that is not
\* global, the bucket has remaining = 0 and reset_at >= now + Retry-After,
\* whatever X-RateLimit-Remaining, -Reset-After and -Limit it carried and
\* whatever the bucket was.
C7_BucketClosedAfter429 ==
    (fb.pc = "returned" /\ fb.resp.status = 429 /\ ~fb.resp.global)
        => /\ fb.out.bucket.remaining = 0
           /\ fb.out.bucket.reset_at >= RetryAfterOf(fb.resp)

\* the 429 carries a Retry-After and headers that say otherwise
C7_Witness ==
    /\ fb.pc = "returned" /\ fb.resp.status = 429 /\ ~fb.resp.global
    /\ fb.resp.retry_after = Some(2)
    /\ fb.resp.rem = Some(1) /\ fb.resp.reset = Some(0) /\ fb.resp.lim = Some(1)
    /\ fb.b.present /\ fb.b.remaining = 1 /\ fb.b.reset_at = 5
    /\ fb.out.bucket.remaining = 0

\* a bucket whose window (reset_at) has not passed
InWindow(r) == buckets[r].present /\ buckets[r].reset_at > 0

\* C8 as stated: at most limit calls are sent for a route while its reset_at
\* is unchanged and not passed.
C8_AtMostLimitPerWindow ==
    \A r \in RouteKeys : InWindow(r) => win[r].sends <= buckets[r].limit

\* C8: while reset_at and limit are unchanged and reset_at is not passed, the
\* calls sent for the route plus the remaining of its bucket are at most
\* limit, provided the last update of the bucket left it so.
C8_AtMostLimitWhenServerAgrees ==
    \A r \in RouteKeys :
        (InWindow(r) /\ win[r].clean) => win[r].sends + buckets[r].remaining <= buckets[r].limit

\* the window is used up and the next call of the route waits for reset_at
C8_Witness ==
    /\ lpc = "bucket_sleep"
    /\ InWindow(CurRoute) /\ win[CurRoute].clean
    /\ buckets[CurRoute].limit >= 1
    /\ win[CurRoute].sends = buckets[CurRoute].limit

\* C9: no result written is a 429 response; a 429 response writes no result
\* and the dispatcher's next step with its request is admission.
C9_ThrottleNeverDelivered ==
    [][ /\ result'.status # 429
        /\ att'.n429 = att.n429 + 1 => (lpc' = "body_429" /\ cur' = cur /\ written' = written)
        /\ lpc = "body_429"
              => (lpc' \in {"body_429", "admit"} /\ cur' = cur /\ written' = written) ]_vars

\* a response is delivered after two 429 responses
C9_Witness == lpc = "delivered" /\ result.kind = "Ok" /\ att.n429 >= 2

\* C10 as stated: a request whose attempts all fail in transport is given 3
\* attempts, then the error; there is no 4th.
C10_ThreeAttempts ==
    /\ (att.ntrans = att.calls /\ att.calls >= 3)
          => (lpc = "delivered" /\ result.kind = "Err" /\ att.calls = 3)
    /\ (lpc = "inflight" /\ att.ntrans = att.calls - 1) => att.calls <= 3

\* C10: a request whose attempts all fail in transport is given 4 attempts
\* (the first and MAX_RETRIES retries), then the error; there is no 5th.
C10_FourAttempts ==
    /\ (att.ntrans = att.calls /\ att.calls >= 4)
          => (lpc = "delivered" /\ result.kind = "Err" /\ att.calls = 4)
    /\ (att.ntrans = att.calls /\ att.calls < 4) => lpc # "delivered"
    /\ (lpc = "inflight" /\ att.ntrans = att.calls - 1) => att.calls <= 4

\* the error is delivered after the 4th transport failure
C10_Witness ==
    lpc = "delivered" /\ result.kind = "Err" /\ att.calls = 4 /\ att.ntrans = 4

\* C11 as stated: a request whose calls were all answered with a 5xx
\* status, until no retry was left, has been given an error (Err) and not a
\* response.
C11_ServerErrorsEndInErr ==
    (lpc = "delivered" /\ att.calls > 0 /\ att.n5xx = att.calls) => result.kind = "Err"

\* C12: once a call of a request that has failed in transport before gets a
\* 2xx response, that response is the result written (Ok); and no error is
\* written for a request before its failed attempts exceed MAX_RETRIES.
C12_SuccessAfterTransportErrors ==
    /\ (att.ntrans >= 1 /\ att.status = 200)
          => (lpc = "delivered" /\ result = [kind |-> "Ok", status |-> 200])
    /\ (lpc = "delivered" /\ result.kind = "Err") => att.ntrans + att.n5xx > MAX_RETRIES

\* transport failures on attempts 1 and 2, success on attempt 3
C12_Witness ==
    /\ lpc = "delivered" /\ result = [kind |-> "Ok", status |-> 200]
    /\ att.ntrans = 2 /\ att.calls = 3

\* C13: no response channel is ever written twice, and once the result of a
\* request is written the dispatcher does nothing more with that request:
\* its next step takes another request from the inbox.
C13_OneResultPerRequest ==
    [][ /\ \A id \in 1..MaxRequests : written'[id] <= 1
        /\ lpc = "delivered"
              => \/ (lpc' = "delivered" /\ cur' = cur /\ att' = att /\ written' = written)
                 \/ (lpc' = "admit" /\ cur'.id # cur.id /\ written' = written) ]_vars

\* both requests of a run have their result, one each
C13_Witness ==
    lpc = "delivered" /\ cur.id = 2 /\ written[1] = 1 /\ written[2] = 1 /\ att.calls > 1

\* a 4xx status other than 429
IsClientError(status) == status >= 400 /\ status <= 499 /\ status # 429

\* C14: the step that receives a response with a 4xx status other than 429
\* writes that response to the caller (Ok), starts no retry and leaves
\* retry_count as it was.
C14_ClientErrorNotRetried ==
    [][ (lpc = "inflight" /\ lpc' # "inflight" /\ IsClientError(att'.status))
          => /\ lpc' = "delivered"
             /\ result' = [kind |-> "Ok", status |-> att'.status]
             /\ written'[cur.id] = written[cur.id] + 1
             /\ retry_count' = retry_count
             /\ att'.calls = att.calls
             /\ cur' = cur ]_vars

\* a 404 is delivered on the 3rd attempt, after two retries
C14_Witness ==
    /\ lpc = "delivered" /\ result = [kind |-> "Ok", status |-> 404]
    /\ retry_count = 2 /\ att.calls = 3

\* the requests waiting in the inbox whose route is not r and whose bucket
\* has remaining > 0 (a route with no bucket yet gets the default one)
OpenElsewhere(r) ==
    {i \in 1..Len(inbox) :
        LET q == get_route(inbox[i].url)
        IN q # r /\ OrDefault(buckets[q]).remaining > 0}

\* C15 as stated: with no global throttle active, the wait for the window of
\* the exhausted bucket of route A does not run to its end while a request
\* submitted for another route B, whose bucket has remaining > 0, is still
\* unsent: B's call is sent without waiting for A's window to reset.
C15_OtherRouteNotBlocked ==
    [][ (lpc = "bucket_sleep" /\ global_reset_at = 0 /\ OpenElsewhere(CurRoute) # {})
          => lpc' = "bucket_sleep" ]_vars

\* the steps of the dispatcher that lead to the next HTTP call
TowardsSend == run_recv \/ run_admit \/ run_jitter_elapsed

\* the dispatcher has one call in flight at most: while a call is in flight
\* no step towards another call can be taken
NoSendWhileInFlight == lpc = "inflight" => ~ENABLED TowardsSend

\* C16 as stated: calls for different buckets overlap, i.e. while the call
\* for route A is in flight and a request for another route B is waiting,
\* the dispatcher can take up B's request and send its call.
C16_CallsOverlap ==
    (lpc = "inflight" /\ \E i \in 1..Len(inbox) : get_route(inbox[i].url) # CurRoute)
        => ENABLED TowardsSend

\* C17: when update_limits has returned, consecutive_429s of the bucket is
\* one more than before if the response was a 429 (global or not) and 0 if
\* it was not, whatever it was before (a route with no bucket counts from
\* the default 0).
C17_ConsecutiveCount ==
    fb.pc = "returned"
        => fb.out.bucket.consecutive_429s =
              IF fb.resp.status = 429 THEN OrDefault(fb.b).consecutive_429s + 1 ELSE 0

\* a global 429 takes the streak past the backoff cap
C17_Witness ==
    /\ fb.pc = "returned" /\ fb.resp.status = 429 /\ fb.resp.global
    /\ fb.b.present /\ fb.b.consecutive_429s = MaxStreak
    /\ fb.out.bucket.consecutive_429s = MaxStreak + 1

(***************************************************************************)
(* Claims on the primitives of the operation state.                        *)
(***************************************************************************)
\* C18: a workflow that calls wait_if_paused while is_paused is false
\* returns from it (goes on to its should_abort test) and is not suspended,
\* whatever is_running and should_abort are.
C18_NoSpuriousSuspension ==
    [][ \A w \in Workflows :
          (wf[w].pc \in WaitPcs /\ ~is_paused /\ wf'[w] # wf[w])
              => wf'[w] = [wf[w] EXCEPT !.pc = CheckPcOf(wf[w].pc)] ]_vars

\* a workflow has passed wait_if_paused with an abort requested and
\* is_running already cleared by another workflow's reset
C18_Witness ==
    \E w \in Workflows :
        wf[w].pc = "msg_check" /\ should_abort /\ ~is_running /\ ~is_paused

\* C19: abort_operation is two stores.  The first makes should_abort true
\* and leaves is_paused and is_running as they are; the second makes
\* is_paused false and leaves should_abort and is_running as they are.
\* With no other writer in between, should_abort = true, is_paused = false
\* and is_running is unchanged when it completes.
C19_AbortSetsFlags ==
    [][ /\ (abort_pc = "idle" /\ abort_pc' = "stored_abort")
              => (should_abort' /\ is_paused' = is_paused /\ is_running' = is_running)
        /\ (abort_pc = "stored_abort" /\ abort_pc' = "idle")
              => (~is_paused' /\ should_abort' = should_abort
                  /\ is_running' = is_running) ]_vars

\* abort_operation has completed while a workflow was suspended by a pause
C19_Witness ==
    /\ abort_pc = "idle" /\ lastCtl = "abort"
    /\ should_abort /\ ~is_paused /\ is_running
    /\ \E w \in Workflows : Parked(w)

\* C20: reset() is three stores.  Each makes its flag false and leaves the
\* other two as they are, whatever the three were; with no other writer in
\* between, all three are false when it completes.
C20_ResetClearsFlags ==
    [][ \A w \in Workflows :
          /\ (wf[w].pc = "reset_running" /\ wf'[w].pc = "reset_paused")
                => (~is_running' /\ is_paused' = is_paused /\ should_abort' = should_abort)
          /\ (wf[w].pc = "reset_paused" /\ wf'[w].pc = "reset_abort")
                => (~is_paused' /\ is_running' = is_running /\ should_abort' = should_abort)
          /\ (wf[w].pc = "reset_abort" /\ wf'[w].pc = "done")
                => (~should_abort' /\ is_running' = is_running
                    /\ is_paused' = is_paused) ]_vars

\* a reset has completed with no control command since it began, while
\* another workflow is still suspended by an earlier pause
C20_Witness ==
    \E w, v \in Workflows :
        /\ wf[w].pc = "done" /\ Parked(v)
        /\ ~is_running /\ ~is_paused /\ ~should_abort /\ lastCtl = "none"

\* the positions of a workflow at which a send_request of its own is
\* submitted and not yet answered
SubmittedPcs == {"send", "bury_get", "bury_patch1", "bury_patch2", "del_get", "del_react",
                 "del_msg"}

\* workflow w submits a request in this step
Submits(w) == wf'[w] # wf[w] /\ wf'[w].pc \in SubmittedPcs

\* C21 as stated: once abort_operation has completed (both stores, no
\* control command and no reset of the flags since) while workflow w is
\* running, w submits no new request to the dispatcher.
C21_NoSubmitAfterAbort ==
    [][ \A w \in Workflows :
          (Active(w) /\ lastCtl = "abort" /\ abort_pc = "idle" /\ should_abort /\ ~is_paused)
              => ~Submits(w) ]_vars

(***************************************************************************)
(* Claims on get_route.                                                    *)
(***************************************************************************)
\* the same URL string up to its query
SameUrlPath(a, b) == a.url.valid = b.url.valid /\ a.url.path = b.url.path

\* C22: two requests whose URLs have the same path get the same route key,
\* whatever their query strings, methods and auth tokens are, and
\* classifying the same URL again gives the same key.
C22_RouteFromPathOnly ==
    gr.pc = "returned"
        => /\ SameUrlPath(gr.a, gr.b) => gr.ka = gr.kb
           /\ gr.again = gr.ka

\* the message list of a channel, fetched with a cursor by one caller and
\* deleted from with another token by another
C22_Witness ==
    /\ gr.pc = "returned" /\ SameUrlPath(gr.a, gr.b)
    /\ gr.a.url.path = <<"api", "v9", "channels", "1", "messages">>
    /\ gr.a.url.query = "limit=100"
    /\ gr.b.url.query = "before=7&around=channels/2/messages"
    /\ gr.a.method # gr.b.method /\ gr.a.auth # gr.b.auth
    /\ gr.ka = <<"channels", "1", "messages">>

\* the URL addresses channel x: x follows the first "channels" of its path
AddressesChannel(url, x) ==
    /\ url.valid
    /\ LET segments == SelectSeq(url.path, LAMBDA y : y # "")
           c == Position(segments, "channels")
       IN c > 0 /\ c + 1 <= Len(segments) /\ segments[c + 1] = x

\* the URL addresses the messages of its channel (the list, one message, a
\* reaction of a message)
AddressesMessages(url) ==
    LET segments == SelectSeq(url.path, LAMBDA y : y # "")
        c == Position(segments, "channels")
    IN c > 0 /\ c + 2 <= Len(segments) /\ segments[c + 2] = "messages"

\* C23 as stated: all requests that address the same channel get one route
\* key, whichever sub-resource of the channel they address.
C23_OneKeyPerChannel ==
    gr.pc = "returned"
        => \A x \in ChannelIds :
              (AddressesChannel(gr.a.url, x) /\ AddressesChannel(gr.b.url, x))
                  => gr.ka = gr.kb

\* C23: the requests that address the messages of channel x (the list, one
\* message, a reaction) all get the key channels/x/messages, and all other
\* requests that address channel x get the key channels/x.
C23_TwoKeysPerChannel ==
    gr.pc = "returned"
        => \A x \in ChannelIds :
              /\ AddressesChannel(gr.a.url, x)
                    => gr.ka = IF AddressesMessages(gr.a.url)
                               THEN <<"channels", x, "messages">>
                               ELSE <<"channels", x>>
              /\ AddressesChannel(gr.b.url, x)
                    => gr.kb = IF AddressesMessages(gr.b.url)
                               THEN <<"channels", x, "messages">>
                               ELSE <<"channels", x>>

\* the message list and a reaction of a message of channel 1 share a key
C23_Witness ==
    /\ gr.pc = "returned"
    /\ gr.a.url.path = <<"api", "v9", "channels", "1", "messages">>
    /\ gr.b.url.path = <<"api", "v9", "channels", "1", "messages", "5", "reactions", "e", "@me">>
    /\ gr.ka = gr.kb /\ gr.ka = <<"channels", "1", "messages">>

(***************************************************************************)
(* Claims on ApiHandle::send_request.                                      *)
(***************************************************************************)
\* C24: once the dispatcher is gone (inbox closed), a send_request returns
\* limiter_offline at once, nothing is queued and no HTTP call is made; the
\* requests the dispatcher held when it went return limiter_timeout, with
\* no result written for them; no caller is left waiting.
C24_ClosedDispatcherReturnsErrors ==
    [][ /\ lpc = "dead"
              => /\ lpc' = "dead" /\ inbox' = <<>> /\ att' = att /\ written' = written
                 /\ \A id \in 1..MaxRequests :
                       returned'[id] # returned[id]
                           => (returned[id] = "none" /\ returned'[id] = "limiter_offline")
        /\ lpc' = "dead" => \A id \in 1..MaxRequests : returned'[id] # "pending"
        /\ \A id \in 1..MaxRequests :
              (returned'[id] = "limiter_timeout" /\ returned[id] # "limiter_timeout")
                  => (returned[id] = "pending" /\ written'[id] = 0 /\ lpc' = "dead") ]_vars

\* the request in progress got limiter_timeout and a later one
\* limiter_offline
C24_Witness ==
    /\ lpc = "dead"
    /\ returned[1] = "limiter_timeout"
    /\ returned[2] = "limiter_offline"

(***************************************************************************)
(* Claims on the locks of RateLimiterActor::run.                           *)
(***************************************************************************)
\* C25: the dispatcher holds neither the bucket-table lock nor the
\* global-throttle lock while it sleeps (global-throttle wait, bucket wait,
\* jitter, retry backoff) or while the HTTP call is in flight.
C25_NoLockWhileWaiting ==
    lpc \in {"global_sleep", "bucket_sleep", "jitter", "retry_sleep", "inflight"}
        => LocksHeld(lpc) = {}

\* the dispatcher sleeps out a global throttle
C25_Witness == lpc = "global_sleep" /\ wake > 0 /\ att.n429 > 0

(***************************************************************************)
(* Claims on the admission of a request by RateLimiterActor::run.          *)
(***************************************************************************)
\* remaining = 0 and reset_at in the future
Exhausted(b) == b.present /\ b.remaining = 0 /\ b.reset_at > 0

\* the pass of the loop sends the request (to the jitter sleep or the call)
Admits == lpc = "admit" /\ lpc' \in {"jitter", "inflight"}

\* a request is not sent from an exhausted bucket: it sleeps past reset_at
\* and is back at the top of the loop, where the global throttle is tested
\* first, with the window passed
WaitsForReset ==
    /\ Admits => ~Exhausted(buckets[CurRoute])
    /\ (lpc = "admit" /\ lpc' # "admit" /\ GlobalBlocked(global_reset_at))
          => (lpc' = "global_sleep" /\ buckets' = buckets)
    /\ (lpc = "admit" /\ lpc' # "admit" /\ ~GlobalBlocked(global_reset_at)
          /\ Exhausted(buckets[CurRoute]))
          => (lpc' = "bucket_sleep" /\ wake' > buckets[CurRoute].reset_at)
    /\ (lpc = "bucket_sleep" /\ lpc' # "bucket_sleep")
          => (lpc' = "admit" /\ buckets'[CurRoute].reset_at = 0
              /\ ~GlobalBlocked(global_reset_at'))

\* C26 as stated: a request that finds its bucket with remaining = 0 and
\* reset_at in the future is not sent before reset_at and re-checks the
\* global throttle before the bucket after waking; after any response
\* reporting remaining = 0 and reset-after d, the next call on that bucket
\* is sent no earlier than d later.
C26_NextCallAfterReportedReset ==
    [][ /\ WaitsForReset
        /\ lpc' = "inflight" => headerDeadline'[get_route(cur'.url)].at = 0 ]_vars

\* C26: as above, the response reporting remaining = 0 and reset-after d
\* being any response but a 429 without X-RateLimit-Global.
C26_NextCallAfterReset ==
    [][ /\ WaitsForReset
        /\ lpc' = "inflight"
              => \/ headerDeadline'[get_route(cur'.url)].at = 0
                 \/ headerDeadline'[get_route(cur'.url)].after429 ]_vars

\* the retry of a request sleeps on the bucket that its 5xx response
\* reported as used up
C26_Witness ==
    /\ lpc = "bucket_sleep"
    /\ att.n5xx > 0
    /\ headerDeadline[CurRoute].set /\ ~headerDeadline[CurRoute].after429
    /\ headerDeadline[CurRoute].at > 0
    /\ wake > headerDeadline[CurRoute].at

\* bucket.remaining as saturating_sub(1) finds it, on the path that sends
BeforeDecrement(b) ==
    LET b1 == Roll(OrDefault(b))
    IN IF b1.remaining = 0 THEN b1.limit ELSE b1.remaining

\* C27 as stated: a request is admitted only from remaining >= 1 just
\* before the decrement and every admission lowers remaining by exactly 1,
\* for every limit the server may report, 0 included.
C27_AdmittedFromOne ==
    [][ Admits => /\ BeforeDecrement(buckets[CurRoute]) >= 1
                  /\ buckets'[CurRoute].remaining = BeforeDecrement(buckets[CurRoute]) - 1 ]_vars

\* what the admissions do satisfy: an admission finds remaining >= 1 and
\* lowers it by exactly 1, except that a bucket of limit 0 whose window has
\* passed admits the request from remaining = 0 and stays at 0
AdmittedFromOneUnlessLimitZero ==
    [][ Admits =>
          IF BeforeDecrement(buckets[CurRoute]) >= 1
          THEN buckets'[CurRoute].remaining = BeforeDecrement(buckets[CurRoute]) - 1
          ELSE /\ OrDefault(buckets[CurRoute]).limit = 0
               /\ WindowPassed(OrDefault(buckets[CurRoute]))
               /\ buckets'[CurRoute].remaining = 0 ]_vars

\* the first call of the request has left from a bucket of limit 2 in its
\* window, which it lowered from 2 to 1
C27_Witness ==
    /\ lpc = "inflight"
    /\ att.calls = 1 /\ ~att.gslept
    /\ buckets[CurRoute].limit = 2
    /\ buckets[CurRoute].remaining = 1
    /\ buckets[CurRoute].reset_at > 0

\* C28: a request considered for admission when now >= reset_at of its
\* bucket finds remaining restored to limit before the exhaustion test: it
\* does not wait and leaves remaining = limit - 1 (0 for limit 0); and
\* remaining never goes below 0.
C28_PassedWindowRestoresLimit ==
    [][ /\ (lpc = "admit" /\ lpc' # "admit" /\ ~GlobalBlocked(global_reset_at)
              /\ WindowPassed(OrDefault(buckets[CurRoute])))
              => /\ Admits
                 /\ buckets'[CurRoute].remaining
                       = Max(OrDefault(buckets[CurRoute]).limit - 1, 0)
        /\ \A r \in RouteKeys : buckets'[r].remaining >= 0 ]_vars

\* the retry of a request has left after the window that its 5xx response
\* reported as used up (remaining 0 of limit 1) has passed
C28_Witness ==
    /\ lpc = "inflight"
    /\ att.calls = 2 /\ att.n5xx = 1
    /\ headerDeadline[CurRoute].set /\ ~headerDeadline[CurRoute].after429
    /\ buckets[CurRoute].limit = 1
    /\ buckets[CurRoute].remaining = 0
    /\ buckets[CurRoute].reset_at = 0

\* C29: the first request on a route never seen before, with no global
\* throttle active, is admitted without a bucket wait; the bucket created
\* for it has limit = 1, consecutive_429s = 0, reset_at not later than the
\* admission, and remaining = 1 that the admission lowers to 0.
C29_NewBucketAdmitsAtOnce ==
    [][ (lpc = "admit" /\ lpc' # "admit" /\ ~GlobalBlocked(global_reset_at)
           /\ ~buckets[CurRoute].present)
          => /\ Admits
             /\ OrDefault(buckets[CurRoute])
                   = [present |-> TRUE, remaining |-> 1, reset_at |-> 0, limit |-> 1,
                      consecutive_429s |-> 0]
             /\ buckets'[CurRoute] = [OrDefault(buckets[CurRoute]) EXCEPT !.remaining = 0] ]_vars

\* the second request is the first on its route; its call is in flight
\* after its first pass of the loop, while the route of the first request
\* has a bucket
C29_Witness ==
    /\ lpc = "inflight"
    /\ cur.id = 2
    /\ att.calls = 1 /\ ~att.gslept
    /\ buckets[CurRoute] = [present |-> TRUE, remaining |-> 0, reset_at |-> 0, limit |-> 1,
                            consecutive_429s |-> 0]
    /\ \E r \in RouteKeys \ {CurRoute} : buckets[r].present

(***************************************************************************)
(* Claims on the feedback after a call.                                    *)
(***************************************************************************)
\* the field takes the value of its header when the response has it
TakesHeader(h, v) == h.some => v = h.v

\* C30 as stated: after every outcome of a call (any response, and a
\* transport failure) remaining, limit and reset_at of the bucket have the
\* values of the rate-limit headers the server supplied and
\* consecutive_429s is incremented or reset.
C30_FeedbackAfterEveryOutcome ==
    fb.pc \in {"returned", "failed"}
        => /\ TakesHeader(fb.resp.rem, fb.out.bucket.remaining)
           /\ TakesHeader(fb.resp.reset, fb.out.bucket.reset_at)
           /\ TakesHeader(fb.resp.lim, fb.out.bucket.limit)
           /\ fb.out.bucket.consecutive_429s
                 \in {OrDefault(fb.b).consecutive_429s + 1, 0}

\* C30: after every response the bucket has the limit of X-RateLimit-Limit
\* and consecutive_429s incremented (429) or reset (any other status);
\* remaining and reset_at have the values of X-RateLimit-Remaining and
\* X-RateLimit-Reset-After, except after a 429 without X-RateLimit-Global,
\* which leaves remaining = 0 and reset_at = now + wait; a field whose
\* header is absent keeps its value; a transport failure changes nothing.
C30_FeedbackAfterEveryResponse ==
    /\ fb.pc = "returned"
          => LET o == OrDefault(fb.b)
                 n == fb.out.bucket
                 closes == fb.resp.status = 429 /\ ~fb.resp.global
             IN /\ n.limit = IF fb.resp.lim.some THEN fb.resp.lim.v ELSE o.limit
                /\ n.consecutive_429s
                      = IF fb.resp.status = 429 THEN o.consecutive_429s + 1 ELSE 0
                /\ n.remaining = IF closes THEN 0
                                 ELSE IF fb.resp.rem.some THEN fb.resp.rem.v ELSE o.remaining
                /\ n.reset_at = IF closes THEN Wait429(fb.resp, n.consecutive_429s)
                                ELSE IF fb.resp.reset.some THEN fb.resp.reset.v ELSE o.reset_at
    /\ fb.pc = "failed" => (fb.out.bucket = fb.b /\ fb.out.global = fb.g)

\* a 500 whose three headers all differ from the bucket, in the middle of
\* a streak of 429s
C30_Witness ==
    /\ fb.pc = "returned" /\ fb.resp.status = 500
    /\ fb.resp.rem = Some(0) /\ fb.resp.reset = Some(20) /\ fb.resp.lim = Some(0)
    /\ fb.b = [present |-> TRUE, remaining |-> 1, reset_at |-> 5, limit |-> 1,
               consecutive_429s |-> 3]
    /\ fb.out.bucket = [present |-> TRUE, remaining |-> 0, reset_at |-> 20, limit |-> 0,
                        consecutive_429s |-> 0]

(***************************************************************************)
(* Claims on what a 429 writes.                                            *)
(***************************************************************************)
\* C31: update_limits on a global 429 sets global_reset_at = now + wait and
\* leaves remaining and reset_at of the bucket as the headers (or, without
\* them, the bucket) had them; on a 429 that is not global it leaves
\* global_reset_at unchanged; in both cases no bucket of another route is
\* modified (lag being the time the call took).
C31_FrameOf429 ==
    [][ (lpc = "inflight" /\ lpc' = "body_429")
          => \E lag \in 0..MaxLag :
                LET resp == last'.resp
                    old == Elapse(buckets, lag)
                    o == OrDefault(old[CurRoute])
                    n == buckets'[CurRoute]
                IN /\ \A r \in RouteKeys \ {CurRoute} : buckets'[r] = old[r]
                   /\ IF resp.global
                      THEN /\ global_reset_at' = Wait429(resp, n.consecutive_429s)
                           /\ n.remaining = IF resp.rem.some THEN resp.rem.v ELSE o.remaining
                           /\ n.reset_at = IF resp.reset.some THEN resp.reset.v ELSE o.reset_at
                      ELSE global_reset_at' = Shift(global_reset_at, lag) ]_vars

\* a global 429 with X-RateLimit-Remaining: 1 has been processed: the
\* throttle is set, the bucket has remaining 1, and the bucket of another
\* route is in its window
C31_Witness ==
    /\ lpc = "body_429"
    /\ last.resp.global /\ last.resp.rem = Some(1)
    /\ global_reset_at > 0
    /\ buckets[CurRoute].remaining = 1
    /\ \E r \in RouteKeys \ {CurRoute} : buckets[r].present /\ buckets[r].reset_at > 0

\* the wait update_limits stored: in global_reset_at for a global 429, in
\* reset_at of the bucket otherwise
StoredWait == IF fb.resp.global THEN fb.out.global ELSE fb.out.bucket.reset_at

\* C32: the wait of a 429 is Retry-After (1 s without the header) when
\* consecutive_429s is 1 after the increment and Retry-After +
\* 2^min(consecutive_429s, 6) s when it is 2 or more: 4 s more at the second
\* consecutive 429 and never more than 64 s more.
C32_WaitOf429 ==
    (fb.pc = "returned" /\ fb.resp.status = 429)
        => LET c == fb.out.bucket.consecutive_429s
               penalty == StoredWait - RetryAfterOf(fb.resp)
           IN /\ c >= 1
              /\ c = 1 => penalty = 0
              /\ c >= 2 => penalty = Sec(2 ^ (IF c < 6 THEN c ELSE 6))
              /\ c = 2 => penalty = Sec(4)
              /\ penalty <= Sec(64)

\* a 429 without Retry-After on a streak past the cap: 1 s + 64 s
C32_Witness ==
    /\ fb.pc = "returned" /\ fb.resp.status = 429 /\ ~fb.resp.global
    /\ fb.resp.retry_after = None
    /\ fb.out.bucket.consecutive_429s = MaxStreak + 1
    /\ fb.out.bucket.reset_at = Sec(1) + Sec(64)

(***************************************************************************)
(* Claims on the retry counter.                                            *)
(***************************************************************************)
\* C33: retry_count is incremented only by a transport failure or a 5xx
\* response (one budget for both), never by a 429; it never exceeds
\* MAX_RETRIES = 3; and it is 0 when a new request is received.
C33_RetryBudget ==
    [][ /\ retry_count' <= 3
        /\ retry_count' \in {retry_count, retry_count + 1, 0}
        /\ retry_count' = retry_count + 1
              => /\ lpc = "inflight" /\ lpc' = "retry_sleep"
                 /\ \/ att'.ntrans = att.ntrans + 1 /\ att'.n5xx = att.n5xx
                    \/ att'.n5xx = att.n5xx + 1 /\ att'.ntrans = att.ntrans
                 /\ att'.n429 = att.n429
                 /\ retry_count' = att'.ntrans + att'.n5xx
        /\ att'.n429 = att.n429 + 1 => retry_count' = retry_count
        /\ (cur'.id # cur.id /\ cur' # NoReq) => retry_count' = 0 ]_vars

\* the second request follows a request that used retries; it has had a 429,
\* a transport failure and a 5xx, and its counter is 2
C33_Witness ==
    /\ cur.id = 2
    /\ lpc = "retry_sleep"
    /\ att.n429 = 1 /\ att.ntrans = 1 /\ att.n5xx = 1
    /\ retry_count = 2
    /\ written[1] = 1

(***************************************************************************)
(* Claims on workflows that share the OperationState.                      *)
(***************************************************************************)
\* workflow w is between its start and the reset() or return that ends it
Executing(w) == Active(w) /\ wf[w].pc \notin {"reset_running", "reset_paused", "reset_abort"}

\* C34: is_running is true whenever at least one workflow is executing
\* between its start and its termination; when two workflows overlap it
\* stays true until the last of them terminates.
C34_RunningUntilLastTerminates ==
    (\E w \in Workflows : Executing(w)) => is_running

\* two workflows overlap, one has begun and the other is in its loop
C34_Witness ==
    \E w, v \in Workflows :
        /\ w # v
        /\ Executing(w) /\ Executing(v)
        /\ wf[w].kind = "rel" /\ wf[v].kind = "rel"
        /\ wf[w].pc = "send" /\ wf[v].i = 1
        /\ is_running

\* w is the only workflow that has been started
Alone(w) == \A v \in Workflows \ {w} : wf[v].pc = "idle"

\* after an abort w submits nothing, leaves through reset(), and its reset()
\* ends with the three flags false
AbortEnds(w) ==
    /\ Aborted(w) => (~Submits(w) /\ wf'[w].pc # "done")
    /\ (wf[w].pc = "reset_abort" /\ wf'[w].pc = "done" /\ lastCtl' = "none")
          => (~is_running' /\ ~is_paused' /\ ~should_abort')

\* C35: when abort_operation has been executed while a single workflow is
\* running and not suspended, the workflow submits no dispatcher call but
\* the one its checkpoint had let through, leaves through reset() and not
\* by a plain return, and when reset() has completed (no control command
\* having been executed since it began) is_running, is_paused and
\* should_abort are all false.
C35_AbortEndsWorkflow ==
    [][ \A w \in Workflows : Alone(w) => AbortEnds(w) ]_vars

\* what the code does satisfy: the same for bulk_remove_relationships and
\* bulk_leave_guilds
AbortEndsRelationships ==
    [][ \A w \in Workflows : (Alone(w) /\ wf[w].kind = "rel") => AbortEnds(w) ]_vars

\* abort_operation has completed while the only workflow, a
\* bulk_remove_relationships, has a call in flight and an item left
C35_Witness ==
    \E w \in Workflows :
        /\ Alone(w)
        /\ wf[w].kind = "rel" /\ wf[w].pc = "send" /\ wf[w].i + 1 < wf[w].n
        /\ Aborted(w)
        /\ lastCtl = "abort" /\ abort_pc = "idle"
        /\ should_abort /\ ~is_paused /\ is_running

\* C39: when abort_operation has been executed while two workflows were
\* running, neither of them submits a dispatcher call past its next
\* checkpoint: the reset() of the one does not make the other miss the abort.
\* (Stated for bulk_remove_relationships, where every call has a checkpoint.)
C39_BothWorkflowsStop ==
    [][ \A w, v \in Workflows :
            ( /\ w # v
              /\ wf[w].kind = "rel" /\ wf[v].kind = "rel"
              /\ w \in aborted /\ Aborted(v) )
            => ~Submits(v) ]_vars

\* abort_operation has completed with two bulk_remove_relationships at their
\* checkpoints, each with items left
C39_Witness ==
    /\ \A w \in Workflows :
          /\ wf[w].kind = "rel" /\ wf[w].pc = "check" /\ wf[w].i + 1 < wf[w].n
          /\ Aborted(w)
    /\ abort_pc = "idle" /\ lastCtl = "abort"
    /\ should_abort /\ ~is_paused

\* the step in which update_limits stores global_reset_at: a 429 marked
\* X-RateLimit-Global has been processed without panic
WritesGlobal == lpc = "inflight" /\ lpc' = "body_429" /\ last'.resp.global

\* C36: global_reset_at never decreases.  The stored Instants are offsets
\* from now: a step that writes global_reset_at leaves it at an offset no
\* smaller than the one it had, whatever the response and however late it
\* comes, and every other step leaves the Instant alone (its offset from now
\* can only shrink).
C36_GlobalThrottleNeverDecreases ==
    [][ IF WritesGlobal
        THEN global_reset_at' >= global_reset_at
        ELSE global_reset_at' <= global_reset_at ]_vars

\* a global 429 has just rewritten the throttle for a request that had
\* already slept on an earlier global throttle
C36_Witness ==
    /\ lpc = "body_429"
    /\ last.valid /\ last.resp.global
    /\ att.gslept
    /\ global_reset_at > 0

\* the dispatcher takes a request from its inbox
Receives == cur' # NoReq /\ cur' # cur

\* C37: the dispatcher handles one request at a time, in inbox order.  It
\* takes request n+1 from the inbox only when the result of request n has
\* been written, the requests are taken in the order they were sent, a
\* result is written only when every earlier request has one, and a call
\* in flight is the call of the one request in progress, which has no result yet.
C37_OneAtATimeInOrder ==
    [][ /\ Receives =>
              /\ cur'.id = IF cur = NoReq THEN 1 ELSE cur.id + 1
              /\ cur # NoReq => written[cur.id] = 1
        /\ \A id \in 1..MaxRequests :
              written'[id] # written[id] =>
                  /\ cur # NoReq /\ cur.id = id
                  /\ \A j \in 1..(id - 1) : written[j] = 1
        /\ lpc' = "inflight" => (cur' # NoReq /\ written'[cur'.id] = 0) ]_vars

\* the call of the second request is in flight, the first request has its
\* result
C37_Witness ==
    /\ cur # NoReq /\ cur.id = 2
    /\ lpc = "inflight"
    /\ written[1] = 1

\* C38: every request accepted into the inbox eventually has a result
\* written to its response channel, when the dispatcher task is scheduled
\* fairly, every sleep ends and a request gets at most Max429 429 responses.
C38_EveryRequestAnswered ==
    \A id \in 1..MaxRequests : (returned[id] = "pending") ~> (written[id] > 0)

\* what the code does satisfy: every accepted request is answered or the
\* dispatcher has ended by a panic
AnsweredUnlessPanicked ==
    \A id \in 1..MaxRequests :
        (returned[id] = "pending") ~> (written[id] > 0 \/ lpc \in {"panicked", "dead"})

\* a request waits in the inbox behind the request whose call is in flight
C38_Witness ==
    /\ lpc = "inflight"
    /\ cur # NoReq
    /\ inbox # <<>>
    /\ returned[Head(inbox).id] = "pending"

====
